---- MODULE Spec2Model ----
(***************************************************************************)
(* Model of the bank/branch catalog service: the two tables (app/models),  *)
(* the query functions and create operations of app/crud.py, the CSV       *)
(* export generator of app/main.py and the bulk loader                     *)
(* scripts/load_data.py.                                                   *)
(*                                                                         *)
(* Text is a sequence of one-character strings, so that lower-casing,      *)
(* equality and LIKE matching are computed and not assumed.  Python's None *)
(* and pandas' NaN are the one-element sequences None and NaN, whose       *)
(* element is no character; in integer columns both are NoInt.             *)
(***************************************************************************)
EXTENDS Integers, Sequences, FiniteSets, TLC

VARIABLES
    banks,              \* table "banks": rows [id, name] in storage order
    branches,           \* table "branches": rows in storage order
    fk_enforced,        \* whether the storage backend checks ForeignKey("banks.id")
    csv_file,           \* data lines of bank_branches.csv
    pc,                 \* position of the loader process
    df,                 \* the loader's data frame
    duplicates_removed, \* the loader's count of dropped duplicate IFSC rows
    existing_ifscs,     \* the loader's in-memory lookup set
    branches_to_insert, \* the loader's staged batch
    idx,                \* the loader's position in df
    total_inserted,     \* the loader's running count of inserted branches
    skipped,            \* the loader's running count of skipped rows
    run_no,             \* history: loader runs started
    clean_runs,         \* history: runs that reached the report with no failed batch
    failed_rows,        \* history: rows of this run's failed batches
    run_added,          \* history: branch rows this run committed
    last_step,          \* history: what the last step did
    creates,            \* history: create operations called
    create_arg,         \* history: the argument of the last create operation
    request,            \* the last request to an endpoint
    response,           \* its response
    ex_pc,              \* position of the export generator
    ex_filters,         \* the export request's filters
    offset,             \* the export generator's offset
    output,             \* the lines the export generator has yielded
    queries,            \* history: the get_branches calls of the export
    ex_began            \* history: the branches table when the export began

lvars == <<csv_file, pc, df, duplicates_removed, existing_ifscs, branches_to_insert,
           idx, total_inserted, skipped, run_no, clean_runs, failed_rows, run_added>>
qvars == <<request, response>>
xvars == <<ex_pc, ex_filters, offset, output, queries, ex_began>>
vars == <<banks, branches, fk_enforced, lvars, last_step, creates, create_arg, qvars,
          xvars>>

-----------------------------------------------------------------------------
(* Bounds of the model *)

\* lines of the source file
MaxRows == 3
\* loader runs in one behaviour
MaxRuns == 2
\* create_bank / create_branch calls in one behaviour
MaxCreates == 2
\* batch_size of load_data.py:99 (5000 there), scaled so that a file of
\* MaxRows lines spans a full batch and a remainder
LoadBatchSize == 2

-----------------------------------------------------------------------------
(* Values *)

None == <<"None">>
NaN == <<"NaN">>
NoInt == 0 - 1

\* pd.notna on a text cell and on a numeric cell
notna(x) == x # NaN
notna_num(x) == x # NoInt

-----------------------------------------------------------------------------
(* Storage: the tables of app/models.py and the constraints they declare *)

BankIds(tbl) == {tbl[i].id : i \in DOMAIN tbl}
Ifscs(tbl) == {tbl[i].ifsc : i \in DOMAIN tbl}

\* a banks table without the primary key
BankRowRefusedNoPk(tbl, rows, k) == rows[k].name \in {None, NaN}

\* Bank.id is the primary key and Bank.name is not nullable: row k of an
\* INSERT is refused when it has no name or when its id is stored or was
\* inserted earlier by the same statement
BankRowRefused(tbl, rows, k) ==
    \/ rows[k].name \in {None, NaN}
    \/ rows[k].id \in BankIds(tbl)
    \/ \E j \in 1..(k - 1) : rows[j].id = rows[k].id

\* Branch.ifsc is the primary key; Branch.bank_id is a foreign key, checked
\* only by a backend that enforces foreign keys
BranchRowRefused(banktbl, tbl, rows, k, fk) ==
    \/ rows[k].ifsc \in Ifscs(tbl)
    \/ \E j \in 1..(k - 1) : rows[j].ifsc = rows[k].ifsc
    \/ fk /\ rows[k].bank_id \notin BankIds(banktbl)

\* a handler that does not roll back: the rows applied before the error stay
RollbackKeepsPending(committed, pending) == pending

\* a rollback that also discards what earlier transactions committed
RollbackDropsCommitted(committed, pending) == <<>>

\* db.rollback(): the open transaction's rows are discarded
Rollback(committed, pending) == committed

\* db.execute(table.insert(), rows); db.commit(): rows are applied in order
\* inside a transaction; the first refused row (or a storage error after
\* `fault` rows, fault > 0) raises, and the caller's handler rolls back.
\* The result is [ok, table].
FirstRefused(refused, n) ==
    IF \E k \in 1..n : refused[k]
    THEN CHOOSE k \in 1..n : refused[k] /\ \A j \in 1..(k - 1) : ~refused[j]
    ELSE 0

Execute(tbl, rows, refused, fault) ==
    LET r == FirstRefused(refused, Len(rows))
        stop == IF r > 0 /\ (fault = 0 \/ r <= fault) THEN r - 1
                ELSE IF fault > 0 THEN fault
                ELSE Len(rows)
        raised == r > 0 \/ fault > 0
        pending == tbl \o SubSeq(rows, 1, stop)
    IN  IF raised
        THEN [ok |-> FALSE, table |-> Rollback(tbl, pending)]
        ELSE [ok |-> TRUE, table |-> pending]

InsertBanks(tbl, rows, fault) ==
    Execute(tbl, rows, [k \in 1..Len(rows) |-> BankRowRefused(tbl, rows, k)], fault)

InsertBranches(banktbl, tbl, rows, fk, fault) ==
    Execute(tbl, rows,
            [k \in 1..Len(rows) |-> BranchRowRefused(banktbl, tbl, rows, k, fk)],
            fault)

-----------------------------------------------------------------------------
(* The source file and pandas' reading of it *)

Columns == <<"ifsc", "bank_id", "bank_name", "branch", "address", "city",
             "district", "state">>
NCols == Len(Columns)

\* number of the column named c
Col(c) == CHOOSE i \in 1..NCols : Columns[i] = c

\* One data line: nfields cells were written on the line; a cell is text
\* (<<>> when empty) or, in the bank_id column, an integer (NoInt when empty).
Line(nf, ifsc, bank_id, bank_name, t) ==
    [nfields |-> nf, ifsc |-> ifsc, bank_id |-> bank_id, bank_name |-> bank_name,
     branch |-> t, address |-> t, city |-> t, district |-> t, state |-> t]

Ifsc1 == <<"A", "B", "A", "B", "0", "0", "0", "0", "0", "0", "1">>
Ifsc2 == <<"A", "B", "A", "B", "0", "0", "0", "0", "0", "0", "2">>
Ifsc3 == <<"B", "A", "A", "B", "0", "0", "0", "0", "0", "0", "1">>

\* The lines a source file is drawn from: complete lines (with empty
\* optional cells, repeated routing codes and one bank id under two names),
\* a line with too many cells and a line that stops after the routing code.
Lines ==
    { Line(NCols, Ifsc1, 1, <<"A", "b">>, <<"a">>),
      Line(NCols, Ifsc1, 1, <<"A", "b">>, <<"b">>),
      Line(NCols, Ifsc2, 2, <<"b">>, <<>>),
      Line(NCols, Ifsc3, 1, <<"a", "B">>, <<"a", "b">>),
      Line(NCols + 1, Ifsc3, 1, <<"A", "b">>, <<"a">>),
      Line(1, Ifsc3, 1, <<"A", "b">>, <<"a">>) }

SeqsUpTo(S, n) == UNION {[1..k -> S] : k \in 0..n}

Files == SeqsUpTo(Lines, MaxRows)

\* a text cell as pandas reads it: absent or empty cells are NaN
Cell(line, c, v) == IF Col(c) > line.nfields \/ v = <<>> THEN NaN ELSE v

\* a numeric cell as pandas reads it
NumCell(line, c, v) == IF Col(c) > line.nfields THEN NoInt ELSE v

ParseLine(line) ==
    [ifsc |-> Cell(line, "ifsc", line.ifsc),
     bank_id |-> NumCell(line, "bank_id", line.bank_id),
     bank_name |-> Cell(line, "bank_name", line.bank_name),
     branch |-> Cell(line, "branch", line.branch),
     address |-> Cell(line, "address", line.address),
     city |-> Cell(line, "city", line.city),
     district |-> Cell(line, "district", line.district),
     state |-> Cell(line, "state", line.state)]

\* on_bad_lines='skip': a line with more cells than the header is dropped
BadLine(line) == line.nfields > NCols

RECURSIVE read_csv(_)
read_csv(file) ==
    IF file = <<>> THEN <<>>
    ELSE IF BadLine(Head(file)) THEN read_csv(Tail(file))
    ELSE <<ParseLine(Head(file))>> \o read_csv(Tail(file))

\* DataFrame.duplicated(keep='first'): row i is marked when an earlier row
\* has the same key
duplicated(keys) ==
    [i \in DOMAIN keys |-> \E j \in 1..(i - 1) : keys[j] = keys[i]]

\* the same with keep='last'
duplicated_last(keys) ==
    [i \in DOMAIN keys |-> \E j \in (i + 1)..Len(keys) : keys[j] = keys[i]]

\* frame[~mask]
RECURSIVE Unmarked(_, _)
Unmarked(rows, mask) ==
    IF rows = <<>> THEN <<>>
    ELSE LET n == Len(rows)
             init == Unmarked(SubSeq(rows, 1, n - 1), SubSeq(mask, 1, n - 1))
         IN  IF mask[n] THEN init ELSE init \o <<rows[n]>>

\* the same call with keep='last'
drop_duplicates_ifsc_last(rows) ==
    Unmarked(rows, duplicated_last([i \in DOMAIN rows |-> rows[i].ifsc]))

\* load_data.py 47: df.drop_duplicates(subset=['ifsc'], keep='first')
drop_duplicates_ifsc(rows) ==
    Unmarked(rows, duplicated([i \in DOMAIN rows |-> rows[i].ifsc]))

BankPair(row) == [id |-> row.bank_id, name |-> row.bank_name]

\* load_data.py 62-63: df[['bank_id', 'bank_name']].drop_duplicates(), renamed
bank_pairs(frame) ==
    LET pairs == [i \in DOMAIN frame |-> BankPair(frame[i])]
    IN  Unmarked(pairs, duplicated(pairs))

\* sort_values('id'): ascending, missing ids last
IdLess(a, b) == a # NoInt /\ (b = NoInt \/ a < b)

RECURSIVE InsertSorted(_, _)
InsertSorted(sorted, row) ==
    IF sorted = <<>> THEN <<row>>
    ELSE IF IdLess(row.id, Head(sorted).id) THEN <<row>> \o sorted
    ELSE <<Head(sorted)>> \o InsertSorted(Tail(sorted), row)

RECURSIVE sort_values_id(_)
sort_values_id(rows) ==
    IF rows = <<>> THEN <<>>
    ELSE InsertSorted(sort_values_id(SubSeq(rows, 1, Len(rows) - 1)), rows[Len(rows)])

\* load_data.py 62-64
banks_df(frame) == sort_values_id(bank_pairs(frame))

\* every bank of the frame, stored or not
new_banks_unfiltered(to_insert, existing_ids) == to_insert

\* the test of line 78 the wrong way round: only stored ids are kept
new_banks_inverted(to_insert, existing_ids) ==
    SelectSeq(to_insert, LAMBDA b : b.id \in existing_ids)

\* load_data.py 78
RECURSIVE new_banks(_, _)
new_banks(to_insert, existing_ids) ==
    IF to_insert = <<>> THEN <<>>
    ELSE IF Head(to_insert).id \in existing_ids THEN new_banks(Tail(to_insert), existing_ids)
    ELSE <<Head(to_insert)>> \o new_banks(Tail(to_insert), existing_ids)

\* load_data.py 111-119: missing optional text becomes None
OrNone(v) == IF notna(v) THEN v ELSE None

branch_data(row) ==
    [ifsc |-> row.ifsc, bank_id |-> row.bank_id, branch |-> OrNone(row.branch),
     address |-> OrNone(row.address), city |-> OrNone(row.city),
     district |-> OrNone(row.district), state |-> OrNone(row.state)]

-----------------------------------------------------------------------------
(* The loader process: load_data_from_csv of scripts/load_data.py *)

NoRunAdded == [banks |-> <<>>, branches |-> <<>>]

\* lines 33-50: read the file, drop repeated routing codes
LoadCsv ==
    /\ pc \in {"start", "done", "exit1"}
    /\ run_no < MaxRuns
    /\ LET parsed == read_csv(csv_file)
           frame == drop_duplicates_ifsc(parsed)
       IN  /\ df' = frame
           /\ duplicates_removed' = Len(parsed) - Len(frame)
    /\ pc' = "banks"
    /\ run_no' = run_no + 1
    /\ existing_ifscs' = {}
    /\ branches_to_insert' = <<>>
    /\ idx' = 1
    /\ total_inserted' = 0
    /\ skipped' = 0
    /\ failed_rows' = <<>>
    /\ run_added' = NoRunAdded
    /\ last_step' = "load_csv"
    /\ UNCHANGED <<banks, branches, fk_enforced, csv_file, clean_runs, creates, create_arg, qvars, xvars>>

\* lines 60-88 (and the handler of lines 167-178): the distinct banks of the
\* frame, sorted by id; those whose id is not stored go into one INSERT.
\* int(row['id']) raises on a missing id; that and a failed INSERT end the run.
LoadBanks ==
    /\ pc = "banks"
    /\ LET banks_to_insert == banks_df(df)
           new == new_banks(banks_to_insert, BankIds(banks))
       IN  IF \E i \in DOMAIN banks_to_insert : ~notna_num(banks_to_insert[i].id)
           THEN /\ pc' = "exit1"
                /\ last_step' = "abort_row"
                /\ UNCHANGED <<banks, run_added>>
           ELSE IF new = <<>>
           THEN /\ pc' = "existing"
                /\ last_step' = "banks_none"
                /\ UNCHANGED <<banks, run_added>>
           ELSE \E fault \in 0..1 :
                LET r == InsertBanks(banks, new, fault)
                IN  /\ banks' = r.table
                    /\ pc' = IF r.ok THEN "existing" ELSE "exit1"
                    /\ last_step' = IF r.ok THEN "banks_inserted"
                                    ELSE IF fault > 0 THEN "abort_storage"
                                    ELSE "abort_banks"
                    /\ run_added' = IF r.ok THEN [run_added EXCEPT !.banks = new]
                                    ELSE run_added
    /\ UNCHANGED <<branches, fk_enforced, csv_file, df, duplicates_removed,
                   existing_ifscs, branches_to_insert, idx, total_inserted, skipped,
                   run_no, clean_runs, failed_rows, creates, create_arg, qvars, xvars>>

\* lines 94-101: the routing codes already stored
QueryExisting ==
    /\ pc = "existing"
    /\ existing_ifscs' = Ifscs(branches)
    /\ pc' = IF df = <<>> THEN "remaining" ELSE "rows"
    /\ last_step' = "query_existing"
    /\ UNCHANGED <<banks, branches, fk_enforced, csv_file, df, duplicates_removed,
                   branches_to_insert, idx, total_inserted, skipped, run_no,
                   clean_runs, failed_rows, run_added, creates, create_arg, qvars, xvars>>

\* lines 103-137: one iteration of the row loop
RowStep ==
    /\ pc = "rows"
    /\ LET row == df[idx]
           after == IF idx = Len(df) THEN "remaining" ELSE "rows"
       IN  IF row.ifsc \in existing_ifscs
           THEN /\ skipped' = skipped + 1
                /\ idx' = idx + 1
                /\ pc' = after
                /\ last_step' = "skip"
                /\ UNCHANGED <<branches, existing_ifscs, branches_to_insert,
                               total_inserted, failed_rows, run_added>>
           ELSE IF ~notna_num(row.bank_id)
           THEN /\ pc' = "exit1"
                /\ last_step' = "abort_row"
                /\ UNCHANGED <<branches, existing_ifscs, branches_to_insert, idx,
                               total_inserted, skipped, failed_rows, run_added>>
           ELSE LET staged == Append(branches_to_insert, branch_data(row))
                IN  /\ existing_ifscs' = existing_ifscs \cup {row.ifsc}
                    /\ idx' = idx + 1
                    /\ pc' = after
                    /\ UNCHANGED skipped
                    /\ IF Len(staged) >= LoadBatchSize
                       THEN \E fault \in 0..1 :
                            LET r == InsertBranches(banks, branches, staged,
                                                    fk_enforced, fault)
                            IN  /\ branches' = r.table
                                /\ branches_to_insert' = <<>>
                                /\ total_inserted' =
                                       IF r.ok THEN total_inserted + Len(staged)
                                       ELSE total_inserted
                                /\ failed_rows' = IF r.ok THEN failed_rows
                                                  ELSE failed_rows \o staged
                                /\ run_added' =
                                       IF r.ok
                                       THEN [run_added EXCEPT !.branches = @ \o staged]
                                       ELSE run_added
                                /\ last_step' = IF r.ok THEN "batch_inserted"
                                                ELSE "batch_failed"
                       ELSE /\ branches_to_insert' = staged
                            /\ last_step' = "stage"
                            /\ UNCHANGED <<branches, total_inserted, failed_rows,
                                           run_added>>
    /\ UNCHANGED <<banks, fk_enforced, csv_file, df, duplicates_removed, run_no,
                   clean_runs, creates, create_arg, qvars, xvars>>

\* lines 139-165: the remaining rows, then the report
FinishRun ==
    /\ pc = "remaining"
    /\ IF branches_to_insert # <<>>
       THEN \E fault \in 0..1 :
            LET r == InsertBranches(banks, branches, branches_to_insert,
                                    fk_enforced, fault)
            IN  /\ branches' = r.table
                /\ total_inserted' = IF r.ok
                                     THEN total_inserted + Len(branches_to_insert)
                                     ELSE total_inserted
                /\ failed_rows' = IF r.ok THEN failed_rows
                                  ELSE failed_rows \o branches_to_insert
                /\ run_added' = IF r.ok
                                THEN [run_added EXCEPT
                                          !.branches = @ \o branches_to_insert]
                                ELSE run_added
                /\ clean_runs' = IF r.ok /\ failed_rows = <<>> THEN clean_runs + 1
                                 ELSE clean_runs
                /\ last_step' = IF r.ok THEN "rest_inserted" ELSE "rest_failed"
       ELSE /\ clean_runs' = IF failed_rows = <<>> THEN clean_runs + 1
                             ELSE clean_runs
            /\ last_step' = "rest_none"
            /\ UNCHANGED <<branches, total_inserted, failed_rows, run_added>>
    /\ pc' = "done"
    /\ UNCHANGED <<banks, fk_enforced, csv_file, df, duplicates_removed,
                   existing_ifscs, branches_to_insert, idx, skipped, run_no, creates,
                   create_arg, qvars, xvars>>

-----------------------------------------------------------------------------
(* The startup handler: startup_event of app/main.py *)

\* a check that finds the database empty whatever it holds
database_empty_always(banktbl) == TRUE

\* main.py 63-64: bank_count = db.query(models.Bank).count(); bank_count == 0
database_empty(banktbl) == Len(banktbl) = 0

\* main.py 55-82: the application starts while no loader run is under way;
\* it runs scripts/load_data.py when it finds no bank and goes on to serve
\* without loading otherwise
startup_event ==
    /\ pc \in {"start", "done", "exit1"}
    /\ IF database_empty(banks)
       THEN LoadCsv
       ELSE /\ last_step' = "startup_no_load"
            /\ UNCHANGED <<banks, branches, fk_enforced, lvars, creates,
                           create_arg, qvars, xvars>>

-----------------------------------------------------------------------------
(* The explicit create operations of app/crud.py.  They are called while  *)
(* no loader run is under way: the application serves requests only after *)
(* the loader it started has returned (main.py 73-78).                     *)

Serving == pc \in {"start", "done", "exit1"}

BankInputs == {[id |-> 1, name |-> <<"b">>], [id |-> 2, name |-> <<"A", "b">>]}

\* schemas.BranchCreate: the optional text fields default to None
NoText == [branch |-> None, address |-> None, city |-> None, district |-> None,
           state |-> None]

BranchInputs ==
    {[ifsc |-> Ifsc1, bank_id |-> 1] @@ NoText, [ifsc |-> Ifsc3, bank_id |-> 3] @@ NoText}

\* create_bank: db.add, db.commit; a refused row raises and nothing is stored
create_bank(bank) ==
    /\ Serving
    /\ creates < MaxCreates
    /\ creates' = creates + 1
    /\ create_arg' = bank
    /\ LET r == InsertBanks(banks, <<bank>>, 0)
       IN  /\ banks' = r.table
           /\ last_step' = IF r.ok THEN "bank_created" ELSE "create_bank_error"
    /\ UNCHANGED <<branches, fk_enforced, lvars, qvars, xvars>>

\* create_branch: db.add, db.commit; a refused row raises and nothing is stored
create_branch(branch) ==
    /\ Serving
    /\ creates < MaxCreates
    /\ creates' = creates + 1
    /\ create_arg' = branch
    /\ LET r == InsertBranches(banks, branches, <<branch>>, fk_enforced, 0)
       IN  /\ branches' = r.table
           /\ last_step' = IF r.ok THEN "branch_created" ELSE "create_branch_error"
    /\ UNCHANGED <<banks, fk_enforced, lvars, qvars, xvars>>

CreateBank == \E bank \in BankInputs : create_bank(bank)

CreateBranch == \E branch \in BranchInputs : create_branch(branch)

-----------------------------------------------------------------------------
(* Text comparison as crud.py uses it *)

\* "E" and "e" stand for the two cases of a letter outside ASCII (such as
\* E-acute), which Python folds and SQLite does not

\* str.lower() on one character
LowerChar(c) ==
    IF c = "A" THEN "a" ELSE IF c = "B" THEN "b" ELSE IF c = "E" THEN "e" ELSE c

lower(t) == [i \in DOMAIN t |-> LowerChar(t[i])]

\* SQL lower() of the configured backend (SQLite, config.py 11): ASCII
\* letters only
sql_lower(t) ==
    [i \in DOMAIN t |-> IF t[i] = "A" THEN "a" ELSE IF t[i] = "B" THEN "b" ELSE t[i]]

\* SQL LIKE: % matches any run of characters, _ any one character
RECURSIVE Like(_, _)
Like(pattern, t) ==
    IF pattern = <<>> THEN t = <<>>
    ELSE IF Head(pattern) = "%"
         THEN Like(Tail(pattern), t) \/ (t # <<>> /\ Like(pattern, Tail(t)))
    ELSE /\ t # <<>>
         /\ Head(pattern) = "_" \/ Head(pattern) = Head(t)
         /\ Like(Tail(pattern), Tail(t))

\* column.ilike(pattern), compiled to lower(column) LIKE lower(pattern); a
\* NULL column matches nothing
ilike(column, pattern) ==
    column # None /\ Like(sql_lower(pattern), sql_lower(column))

\* func.lower(column) == value.lower(): the column is folded by the backend,
\* the value by Python; a NULL column equals nothing
lower_eq(column, value) == column # None /\ sql_lower(column) = lower(value)

\* a presence test that takes the empty text for a value
TruthyNotNone(t) == t # None

\* Python truth of an optional text and of an optional integer
Truthy(t) == t # None /\ t # <<>>
TruthyInt(n) == n # NoInt /\ n # 0

-----------------------------------------------------------------------------
(* The query functions of app/crud.py *)

NoFilters == [bank_id |-> NoInt, bank_name |-> None, city |-> None,
              district |-> None, state |-> None, search |-> None]

\* query.join(models.Bank).filter(func.lower(Bank.name) == bank_name.lower()):
\* one result row for every pair of a branch and a bank row with its bank_id
RECURSIVE join_bank_name(_, _, _)
join_bank_name(rows, banktbl, bank_name) ==
    IF rows = <<>> THEN <<>>
    ELSE LET r == Head(rows)
             m == SelectSeq(banktbl, LAMBDA b : b.id = r.bank_id
                                               /\ lower_eq(b.name, bank_name))
         IN  [i \in 1..Len(m) |-> r] \o join_bank_name(Tail(rows), banktbl, bank_name)

\* f"%{search}%"
search_term(search) == <<"%">> \o search \o <<"%">>

\* or_(branch.ilike, address.ilike, ifsc.ilike)
search_hit(r, search) ==
    \/ ilike(r.branch, search_term(search))
    \/ ilike(r.address, search_term(search))
    \/ ilike(r.ifsc, search_term(search))

\* a limit that lets one row more through
offset_limit_one_more(rows, skip, limit) ==
    LET last == IF limit = NoInt \/ skip + limit + 1 > Len(rows) THEN Len(rows)
                ELSE skip + limit + 1
    IN  SubSeq(rows, skip + 1, last)

\* query.offset(skip).limit(limit); limit None returns every remaining row
offset_limit(rows, skip, limit) ==
    LET last == IF limit = NoInt \/ skip + limit > Len(rows) THEN Len(rows)
                ELSE skip + limit
    IN  SubSeq(rows, skip + 1, last)

NoBank == [id |-> NoInt, name |-> None]

\* a join that takes the first bank row, whatever its id
bank_of_first(r, banktbl) == IF banktbl # <<>> THEN banktbl[1] ELSE NoBank

\* joinedload(models.Branch.bank): the bank row of the branch's bank_id
bank_of(r, banktbl) ==
    IF \E i \in DOMAIN banktbl : banktbl[i].id = r.bank_id
    THEN banktbl[CHOOSE i \in DOMAIN banktbl : banktbl[i].id = r.bank_id]
    ELSE NoBank

with_bank(r, banktbl) == [row |-> r, bank |-> bank_of(r, banktbl)]

\* crud.get_branches, lines 127-156
get_branches(banktbl, tbl, skip, limit, f) ==
    LET q1 == IF TruthyInt(f.bank_id)
              THEN SelectSeq(tbl, LAMBDA r : r.bank_id = f.bank_id) ELSE tbl
        q2 == IF Truthy(f.bank_name)
              THEN join_bank_name(q1, banktbl, f.bank_name) ELSE q1
        q3 == IF Truthy(f.city)
              THEN SelectSeq(q2, LAMBDA r : lower_eq(r.city, f.city)) ELSE q2
        q4 == IF Truthy(f.district)
              THEN SelectSeq(q3, LAMBDA r : lower_eq(r.district, f.district)) ELSE q3
        q5 == IF Truthy(f.state)
              THEN SelectSeq(q4, LAMBDA r : lower_eq(r.state, f.state)) ELSE q4
        q6 == IF Truthy(f.search)
              THEN SelectSeq(q5, LAMBDA r : search_hit(r, f.search)) ELSE q5
        page == offset_limit(q6, skip, limit)
    IN  [i \in DOMAIN page |-> with_bank(page[i], banktbl)]

\* a count that leaves out the state filter
get_branches_count_no_state(banktbl, tbl, f) ==
    LET q1 == IF TruthyInt(f.bank_id)
              THEN SelectSeq(tbl, LAMBDA r : r.bank_id = f.bank_id) ELSE tbl
        q2 == IF Truthy(f.bank_name)
              THEN join_bank_name(q1, banktbl, f.bank_name) ELSE q1
        q3 == IF Truthy(f.city)
              THEN SelectSeq(q2, LAMBDA r : lower_eq(r.city, f.city)) ELSE q2
        q4 == IF Truthy(f.district)
              THEN SelectSeq(q3, LAMBDA r : lower_eq(r.district, f.district)) ELSE q3
        q6 == IF Truthy(f.search)
              THEN SelectSeq(q4, LAMBDA r : search_hit(r, f.search)) ELSE q4
    IN  Len(SelectSeq(q6, LAMBDA r : r.ifsc # None))

\* crud.get_branches_count, lines 183-212: func.count(Branch.ifsc) counts the
\* result rows whose ifsc is not NULL
get_branches_count(banktbl, tbl, f) ==
    LET q1 == IF TruthyInt(f.bank_id)
              THEN SelectSeq(tbl, LAMBDA r : r.bank_id = f.bank_id) ELSE tbl
        q2 == IF Truthy(f.bank_name)
              THEN join_bank_name(q1, banktbl, f.bank_name) ELSE q1
        q3 == IF Truthy(f.city)
              THEN SelectSeq(q2, LAMBDA r : lower_eq(r.city, f.city)) ELSE q2
        q4 == IF Truthy(f.district)
              THEN SelectSeq(q3, LAMBDA r : lower_eq(r.district, f.district)) ELSE q3
        q5 == IF Truthy(f.state)
              THEN SelectSeq(q4, LAMBDA r : lower_eq(r.state, f.state)) ELSE q4
        q6 == IF Truthy(f.search)
              THEN SelectSeq(q5, LAMBDA r : search_hit(r, f.search)) ELSE q5
    IN  Len(SelectSeq(q6, LAMBDA r : r.ifsc # None))

\* crud.get_banks_count, lines 75-80
get_banks_count(banktbl, search) ==
    LET q == IF Truthy(search)
             THEN SelectSeq(banktbl, LAMBDA b : ilike(b.name, search_term(search)))
             ELSE banktbl
    IN  Len(SelectSeq(q, LAMBDA b : b.id # NoInt))

\* crud.get_banks, lines 56-61
get_banks(banktbl, skip, limit, search) ==
    LET q == IF Truthy(search)
             THEN SelectSeq(banktbl, LAMBDA b : ilike(b.name, search_term(search)))
             ELSE banktbl
    IN  offset_limit(q, skip, limit)

\* the largest integer the storage driver binds to a statement parameter
\* (2^63 - 1 in sqlite3 and in a BIGINT), scaled to the model's integers
SqlIntMax == 1000000

\* query.offset(skip).limit(limit), crud.py 156: binding an integer above
\* the driver's range raises instead of running the statement
bind_overflows(skip, limit) ==
    skip > SqlIntMax \/ (limit # NoInt /\ limit > SqlIntMax)

\* a call of crud.get_branches as the resolvers and tests make it: the rows,
\* or the exception of the driver
crud_get_branches(skip, limit, f) ==
    /\ request' = [op |-> "get_branches", skip |-> skip, limit |-> limit,
                   filters |-> f]
    /\ response' = IF bind_overflows(skip, limit) THEN [raised |-> TRUE]
                   ELSE [raised |-> FALSE,
                         body |-> get_branches(banks, branches, skip, limit, f)]
    /\ UNCHANGED <<banks, branches, fk_enforced, lvars, last_step, creates,
                   create_arg, xvars>>

-----------------------------------------------------------------------------
(* Lookups by key: crud.get_bank, crud.get_branch and the endpoints and    *)
(* GraphQL resolvers that call them                                        *)

\* str.upper() on one character
UpperChar(c) == IF c = "a" THEN "A" ELSE IF c = "b" THEN "B" ELSE c

upper(t) == [i \in DOMAIN t |-> UpperChar(t[i])]

\* the result None of a lookup that found no row
NoRow == [found |-> FALSE]

\* Query.first(): the first row of the result, None when there is none
first(rows) == IF rows = <<>> THEN NoRow ELSE Head(rows)

\* a lookup that takes the first bank whatever its id
get_bank_any(banktbl, bank_id) ==
    first(banktbl)

\* crud.get_bank, line 19
get_bank(banktbl, bank_id) ==
    first(SelectSeq(banktbl, LAMBDA b : b.id = bank_id))

\* crud.get_branch, lines 94-96: Branch.ifsc == ifsc.upper()
get_branch(banktbl, tbl, ifsc) ==
    LET found == first(SelectSeq(tbl, LAMBDA r : r.ifsc = upper(ifsc)))
    IN  IF found = NoRow THEN NoRow ELSE with_bank(found, banktbl)

\* what an endpoint or resolver leaves unchanged
ReadOnly ==
    UNCHANGED <<banks, branches, fk_enforced, lvars, last_step, creates,
                create_arg, xvars>>

\* GET /api/banks/{bank_id}, main.py 156-176
api_get_bank(bank_id) ==
    /\ request' = [op |-> "api_get_bank", bank_id |-> bank_id]
    /\ LET bank == get_bank(banks, bank_id)
       IN  response' = IF bank = NoRow THEN [status |-> 404]
                       ELSE [status |-> 200, body |-> bank]
    /\ ReadOnly

\* GET /api/branches/{ifsc}, main.py 373-402; the response model
\* schemas.BranchWithBank requires the bank (schemas.py 47)
api_get_branch(ifsc) ==
    /\ request' = [op |-> "api_get_branch", ifsc |-> ifsc]
    /\ IF Len(ifsc) # 11
       THEN response' = [status |-> 400, engine_called |-> FALSE]
       ELSE LET branch == get_branch(banks, branches, ifsc)
            IN  response' = IF branch = NoRow
                            THEN [status |-> 404, engine_called |-> TRUE]
                            ELSE IF branch.bank = NoBank
                            THEN [status |-> 500, engine_called |-> TRUE]
                            ELSE [status |-> 200, engine_called |-> TRUE,
                                  body |-> branch]
    /\ ReadOnly

\* GraphQL Query.bank, graphql_schema.py 96-106: null when there is no bank
Query_bank(bank_id) ==
    /\ request' = [op |-> "Query_bank", bank_id |-> bank_id]
    /\ response' = [status |-> 200, data |-> get_bank(banks, bank_id)]
    /\ ReadOnly

\* GraphQL Query.branch, graphql_schema.py 108-127: crud.get_branch is called
\* with the argument as it came; null when there is no branch
Query_branch(ifsc) ==
    /\ request' = [op |-> "Query_branch", ifsc |-> ifsc]
    /\ response' = [status |-> 200, engine_called |-> TRUE,
                    data |-> get_branch(banks, branches, ifsc)]
    /\ ReadOnly

-----------------------------------------------------------------------------
(* The REST endpoints of app/main.py that list and count branches *)

\* Query(..., le=1000) on page_size
PageSizeMax == 1000

NoRequest == [op |-> "none"]
NoResponse == [status |-> 0]

\* Query(50, ge=0, le=1000) on page_size of the branch listings
BranchPageSizeMin == 0

\* a validation without the ceiling on page_size
PagingRejectedNoCeiling(page, page_size, lo, hi) ==
    page < 1 \/ page_size < lo

\* Query(1, ge=1) on page and Query(.., ge=lo, le=hi) on page_size: the
\* framework answers 422 before the handler runs
PagingRejected(page, page_size, lo, hi) ==
    page < 1 \/ page_size < lo \/ page_size > hi

\* response_model=List[schemas.BranchWithBank]: bank is a required field
\* (schemas.py 47), so a branch without a joined bank does not validate
BranchWithBank(j) == j.bank # NoBank

\* GET /api/branches, lines 229-279: page >= 1 and 0 <= page_size <= 1000
\* are validated by the framework (422); page_size 0 lists everything; an
\* exception of the engine or a response that does not validate is answered
\* with 500.  The response records the skip and the limit the handler passed
\* to crud.get_branches.
list_branches(page, page_size, f) ==
    /\ request' = [op |-> "list_branches", page |-> page, page_size |-> page_size,
                   filters |-> f]
    /\ IF PagingRejected(page, page_size, BranchPageSizeMin, PageSizeMax)
       THEN response' = [status |-> 422, engine_called |-> FALSE]
       ELSE LET skip == IF page_size = 0 THEN 0 ELSE (page - 1) * page_size
                limit == IF page_size = 0 THEN NoInt ELSE page_size
                rows == get_branches(banks, branches, skip, limit, f)
            IN  response' =
                    IF bind_overflows(skip, limit)
                    THEN [status |-> 500, engine_called |-> TRUE,
                          skip |-> skip, limit |-> limit]
                    ELSE IF \E i \in DOMAIN rows : ~BranchWithBank(rows[i])
                    THEN [status |-> 500, engine_called |-> TRUE,
                          skip |-> skip, limit |-> limit]
                    ELSE [status |-> 200, engine_called |-> TRUE,
                          skip |-> skip, limit |-> limit, body |-> rows]
    /\ UNCHANGED <<banks, branches, fk_enforced, lvars, last_step, creates,
                   create_arg, xvars>>

\* GET /api/branches/count, lines 283-306
branches_count(f) ==
    /\ request' = [op |-> "branches_count", filters |-> f]
    /\ response' = [status |-> 200,
                    count |-> get_branches_count(banks, branches, f)]
    /\ UNCHANGED <<banks, branches, fk_enforced, lvars, last_step, creates,
                   create_arg, xvars>>

\* GET /api/banks/{bank_id}/branches, main.py 179-225: 404 for a bank that
\* is not stored; the branches are returned without the joined bank
api_get_bank_branches(bank_id, page, page_size, city, state) ==
    /\ request' = [op |-> "api_get_bank_branches", bank_id |-> bank_id,
                   page |-> page, page_size |-> page_size,
                   filters |-> [NoFilters EXCEPT !.bank_id = bank_id,
                                                 !.city = city, !.state = state]]
    /\ IF PagingRejected(page, page_size, BranchPageSizeMin, PageSizeMax)
       THEN response' = [status |-> 422, engine_called |-> FALSE]
       ELSE IF get_bank(banks, bank_id) = NoRow
       THEN response' = [status |-> 404, engine_called |-> TRUE]
       ELSE LET skip == IF page_size = 0 THEN 0 ELSE (page - 1) * page_size
                limit == IF page_size = 0 THEN NoInt ELSE page_size
                rows == get_branches(banks, branches, skip, limit,
                                     [NoFilters EXCEPT !.bank_id = bank_id,
                                                       !.city = city,
                                                       !.state = state])
            IN  response' = IF bind_overflows(skip, limit)
                            THEN [status |-> 500, engine_called |-> TRUE,
                                  skip |-> skip, limit |-> limit]
                            ELSE [status |-> 200, engine_called |-> TRUE,
                                  skip |-> skip, limit |-> limit,
                                  body |-> [i \in DOMAIN rows |-> rows[i].row]]
    /\ ReadOnly

\* GraphQL Query.branches, graphql_schema.py 45-84: limit and offset go to
\* crud.get_branches as they came
Query_branches(bank_name, city, state, limit, skip) ==
    /\ request' = [op |-> "Query_branches", limit |-> limit, offset |-> skip,
                   filters |-> [NoFilters EXCEPT !.bank_name = bank_name,
                                                 !.city = city, !.state = state]]
    /\ response' = [status |-> 200, limit |-> limit,
                    data |-> get_branches(banks, branches, skip, limit,
                                          [NoFilters EXCEPT !.bank_name = bank_name,
                                                            !.city = city,
                                                            !.state = state])]
    /\ ReadOnly

\* Query(50, ge=1, le=100) on page_size of the bank listing
BankPageSizeMin == 1
BankPageSizeMax == 100

\* GET /api/banks, main.py 133-153
list_banks(page, page_size, search) ==
    /\ request' = [op |-> "list_banks", page |-> page, page_size |-> page_size,
                   search |-> search]
    /\ IF PagingRejected(page, page_size, BankPageSizeMin, BankPageSizeMax)
       THEN response' = [status |-> 422, engine_called |-> FALSE]
       ELSE LET skip == (page - 1) * page_size
            IN  response' =
                    IF bind_overflows(skip, page_size)
                    THEN [status |-> 500, engine_called |-> TRUE,
                          skip |-> skip, limit |-> page_size]
                    ELSE [status |-> 200, engine_called |-> TRUE,
                          skip |-> skip, limit |-> page_size,
                          body |-> get_banks(banks, skip, page_size, search)]
    /\ ReadOnly

\* a call of crud.get_banks as the GraphQL resolver and the tests make it
crud_get_banks(skip, limit, search) ==
    /\ request' = [op |-> "get_banks", skip |-> skip, limit |-> limit,
                   search |-> search]
    /\ response' = IF bind_overflows(skip, limit) THEN [raised |-> TRUE]
                   ELSE [raised |-> FALSE,
                         body |-> get_banks(banks, skip, limit, search)]
    /\ ReadOnly

\* a call of crud.get_banks_count
crud_get_banks_count(search) ==
    /\ request' = [op |-> "get_banks_count", search |-> search]
    /\ response' = [raised |-> FALSE, count |-> get_banks_count(banks, search)]
    /\ ReadOnly

-----------------------------------------------------------------------------
(* The export generator: export_branches_csv.row_generator of app/main.py *)

\* batch_size of main.py:332 (1000 there), scaled so that a store of
\* MaxExportRows rows spans full batches and a remainder
ExportBatchSize == 2

header == Columns

\* r.branch or '' and the like
OrEmpty(t) == IF Truthy(t) THEN t ELSE <<>>

\* lines 350-360: the cells of one data line
csv_row(j) ==
    <<j.row.ifsc, j.row.bank_id,
      IF j.bank # NoBank THEN j.bank.name ELSE <<>>,
      OrEmpty(j.row.branch), OrEmpty(j.row.address), OrEmpty(j.row.city),
      OrEmpty(j.row.district), OrEmpty(j.row.state)>>

\* a loop that goes on after a short batch and stops only on an empty one
ExportStopsOnEmptyOnly(n) == n = 0

\* lines 346-347 and 365-366: the loop ends after an empty or a short batch
ExportStops(n) == n = 0 \/ n < ExportBatchSize

\* an offset that advances by one row instead of one batch
NextOffsetByOne(off) == off + 1

\* an offset that advances by one row more than a batch
NextOffsetSkipsOne(off) == off + ExportBatchSize + 1

\* line 367: offset += batch_size
NextOffset(off) == off + ExportBatchSize

\* lines 322-333: the request arrives, the header line is yielded
ExportStart(f) ==
    /\ ex_pc \in {"idle", "done"}
    /\ ex_filters' = f
    /\ output' = <<header>>
    /\ offset' = 0
    /\ queries' = <<>>
    /\ ex_began' = branches
    /\ ex_pc' = "loop"
    /\ UNCHANGED <<banks, branches, fk_enforced, lvars, last_step, creates,
                   create_arg, qvars>>

\* lines 334-367: one iteration of the loop: a get_branches call and the
\* lines of its rows; tbl is the branches table in the order in which the
\* backend lists it
export_batch(tbl) ==
    /\ ex_pc = "loop"
    /\ LET rows == get_branches(banks, tbl, offset, ExportBatchSize, ex_filters)
       IN  /\ queries' = Append(queries, [skip |-> offset, limit |-> ExportBatchSize,
                                          n |-> Len(rows)])
           /\ output' = output \o [i \in DOMAIN rows |-> csv_row(rows[i])]
           /\ ex_pc' = IF ExportStops(Len(rows)) THEN "done" ELSE "loop"
           /\ offset' = IF ExportStops(Len(rows)) THEN offset
                        ELSE NextOffset(offset)
    /\ UNCHANGED <<banks, branches, fk_enforced, lvars, last_step, creates,
                   create_arg, qvars, ex_filters, ex_began>>

\* an iteration on a backend that lists the rows in storage order
ExportBatch == export_batch(branches)

\* the characters of the model in the order of their codes
Alphabet ==
    <<"%", "0", "1", "2", "3", "4", "5", "6", "7", "8", "9", "A", "B", "E", "_",
      "a", "b", "e">>

CharRank(c) == CHOOSE i \in DOMAIN Alphabet : Alphabet[i] = c

\* a < b in the order of the primary-key index of Branch.ifsc
RECURSIVE TextLess(_, _)
TextLess(a, b) ==
    IF b = <<>> THEN FALSE
    ELSE IF a = <<>> THEN TRUE
    ELSE IF Head(a) = Head(b) THEN TextLess(Tail(a), Tail(b))
    ELSE CharRank(Head(a)) < CharRank(Head(b))

RECURSIVE InsertByIfsc(_, _)
InsertByIfsc(sorted, row) ==
    IF sorted = <<>> THEN <<row>>
    ELSE IF TextLess(row.ifsc, Head(sorted).ifsc) THEN <<row>> \o sorted
    ELSE <<Head(sorted)>> \o InsertByIfsc(Tail(sorted), row)

\* the branches table as a scan of its primary-key index lists it
RECURSIVE order_by_ifsc(_)
order_by_ifsc(tbl) ==
    IF tbl = <<>> THEN <<>>
    ELSE InsertByIfsc(order_by_ifsc(Tail(tbl)), Head(tbl))

\* an iteration on a backend that lists the rows in routing-code order
ExportBatchByIfsc == export_batch(order_by_ifsc(branches))

-----
(* Specification Spec: loader runs over one source file, against a store   *)
(* that is empty or was filled before                                      *)

\* stores left by earlier create operations
StoresBefore ==
    { [banks |-> <<>>, branches |-> <<>>],
      [banks |-> <<[id |-> 1, name |-> <<"b">>]>>, branches |-> <<>>],
      [banks |-> <<[id |-> 1, name |-> <<"b">>]>>,
       branches |-> <<[ifsc |-> Ifsc1, bank_id |-> 1] @@ NoText>>] }

InitLoader ==
    /\ pc = "start"
    /\ df = <<>>
    /\ duplicates_removed = 0
    /\ existing_ifscs = {}
    /\ branches_to_insert = <<>>
    /\ idx = 1
    /\ total_inserted = 0
    /\ skipped = 0
    /\ run_no = 0
    /\ clean_runs = 0
    /\ failed_rows = <<>>
    /\ run_added = NoRunAdded
    /\ last_step = "init"
    /\ creates = 0
    /\ create_arg = None

InitIdle ==
    /\ request = NoRequest
    /\ response = NoResponse
    /\ ex_pc = "idle"
    /\ ex_filters = NoFilters
    /\ offset = 0
    /\ output = <<>>
    /\ queries = <<>>
    /\ ex_began = <<>>

Init ==
    /\ \E s \in StoresBefore : banks = s.banks /\ branches = s.branches
    /\ fk_enforced \in BOOLEAN
    /\ csv_file \in Files
    /\ InitLoader
    /\ InitIdle

Next ==
    \/ LoadCsv
    \/ LoadBanks
    \/ QueryExisting
    \/ RowStep
    \/ FinishRun

Spec == Init /\ [][Next]_vars

-----------------------------------------------------------------------------
(* Specification SpecStore: loader runs and create operations in any order *)

StoreLines ==
    { Line(NCols, Ifsc1, 1, <<"A", "b">>, <<"a">>),
      Line(NCols, Ifsc2, 2, <<"b">>, <<>>),
      Line(NCols, Ifsc3, 1, <<"a", "B">>, <<"a", "b">>) }

InitStore ==
    /\ banks = <<>>
    /\ branches = <<>>
    /\ fk_enforced \in BOOLEAN
    /\ csv_file \in SeqsUpTo(StoreLines, MaxRows)
    /\ InitLoader
    /\ InitIdle

NextStore ==
    \/ LoadCsv
    \/ LoadBanks
    \/ QueryExisting
    \/ RowStep
    \/ FinishRun
    \/ CreateBank
    \/ CreateBranch

SpecStore == InitStore /\ [][NextStore]_vars

-----------------------------------------------------------------------------
(* Specification SpecQuery: one list or count request, or one call of the  *)
(* listing function, against a store                                      *)

MaxStore == 3
MaxPage == 2

QueryBanks == <<[id |-> 1, name |-> <<"A", "b">>], [id |-> 2, name |-> <<"a">>]>>

Ifsc4 == <<"B", "A", "A", "B", "0", "0", "0", "0", "0", "0", "2">>

\* branch 3 belongs to a bank that is not stored; branch 4 has no text at all
QueryRows ==
    { [ifsc |-> Ifsc1, bank_id |-> 1, branch |-> <<"A", "b">>, address |-> <<"b">>,
       city |-> <<"A", "B">>, district |-> <<"a">>, state |-> <<"B">>],
      [ifsc |-> Ifsc2, bank_id |-> 2, branch |-> None, address |-> <<"a", "b">>,
       city |-> <<"a", "b">>, district |-> None, state |-> <<"b">>],
      [ifsc |-> Ifsc3, bank_id |-> 3, branch |-> <<"b">>, address |-> None,
       city |-> None, district |-> <<"A">>, state |-> None],
      [ifsc |-> Ifsc4, bank_id |-> 1] @@ NoText }

QueryStores ==
    {t \in SeqsUpTo(QueryRows, MaxStore) :
        \A i, j \in DOMAIN t : t[i].ifsc = t[j].ifsc => i = j}

QueryFilters ==
    [bank_id : {NoInt, 0, 1},
     bank_name : {None, <<"A", "B">>},
     city : {None, <<>>, <<"A", "b">>},
     district : {None, <<"A">>},
     state : {None, <<"b">>},
     search : {None, <<"A">>, <<"_">>}]

PageSizes == {0, 1, 2, PageSizeMax, PageSizeMax + 1}

InitQuery ==
    /\ banks = QueryBanks
    /\ branches \in QueryStores
    /\ fk_enforced = FALSE
    /\ csv_file = <<>>
    /\ InitLoader
    /\ InitIdle

\* the last page number that is a storage integer
HugePage == SqlIntMax

Pages == 0..MaxPage \cup {HugePage}

ListBranches ==
    /\ request = NoRequest
    /\ \E page \in Pages, page_size \in PageSizes, f \in QueryFilters :
           list_branches(page, page_size, f)

Skips == 0..MaxStore \cup {SqlIntMax, SqlIntMax + 1}

Limits == {NoInt} \cup 1..MaxPage

GetBranches ==
    /\ request = NoRequest
    /\ \E skip \in Skips, limit \in Limits, f \in QueryFilters :
           crud_get_branches(skip, limit, f)

BranchesCount ==
    /\ request = NoRequest
    /\ \E f \in QueryFilters : branches_count(f)

GetBankBranches ==
    /\ request = NoRequest
    /\ \E bank_id \in {0, 1, 3}, page \in Pages, page_size \in PageSizes,
          city \in {None, <<"A", "b">>}, state \in {None, <<>>, <<"b">>} :
           api_get_bank_branches(bank_id, page, page_size, city, state)

QueryBranches ==
    /\ request = NoRequest
    /\ \E bank_name \in {None, <<"A", "B">>}, city \in {None, <<"A", "b">>},
          state \in {None, <<"b">>}, limit \in {0, 1, PageSizeMax, PageSizeMax + 1},
          skip \in 0..1 :
           Query_branches(bank_name, city, state, limit, skip)

ListBanks ==
    /\ request = NoRequest
    /\ \E page \in Pages,
          page_size \in PageSizes \cup {BankPageSizeMax, BankPageSizeMax + 1},
          search \in {None, <<"A">>} :
           list_banks(page, page_size, search)

NextQuery ==
    \/ ListBanks
    \/ ListBranches
    \/ BranchesCount
    \/ GetBranches
    \/ GetBankBranches
    \/ QueryBranches

SpecQuery == InitQuery /\ [][NextQuery]_vars

-----------------------------------------------------------------------------
(* Specification SpecCore: every operation of the core against one store:  *)
(* loader runs, create operations, list, count, lookups and exports        *)

CoreLines ==
    { Line(NCols, Ifsc1, 1, <<"A", "b">>, <<"a">>),
      Line(NCols, Ifsc2, 2, <<"b">>, <<>>) }

\* the source files: every sequence of the lines, as long as there are lines
CoreFiles == SeqsUpTo(CoreLines, Cardinality(CoreLines))

InitCore ==
    /\ banks = <<>>
    /\ branches = <<>>
    /\ fk_enforced = FALSE
    /\ csv_file \in CoreFiles
    /\ InitLoader
    /\ InitIdle

\* one kind of read is followed at a time: a list, count or lookup request
\* is answered while no export is open, and an export runs while no such
\* request has been recorded
Answering == Serving /\ ex_pc = "idle"

Exporting == Serving /\ request = NoRequest

CoreList == Answering /\ list_branches(1, 0, NoFilters)

CoreCount == Answering /\ branches_count(NoFilters)

CoreGetBank == Answering /\ api_get_bank(1)

CoreGetBranch == Answering /\ api_get_branch(Ifsc1)

CoreExportRequest == Exporting /\ ExportStart(NoFilters)

CoreExportBatch == Exporting /\ ExportBatch

NextCore ==
    \/ LoadCsv
    \/ LoadBanks
    \/ QueryExisting
    \/ RowStep
    \/ FinishRun
    \/ CreateBank
    \/ CreateBranch
    \/ CoreList
    \/ CoreCount
    \/ CoreGetBank
    \/ CoreGetBranch
    \/ CoreExportRequest
    \/ CoreExportBatch

SpecCore == InitCore /\ [][NextCore]_vars

-----------------------------------------------------------------------------
(* Specification SpecLookup: lookups by bank id and by routing code, REST  *)
(* and GraphQL, against a store that create operations add to              *)

\* the spellings of a routing code: each of its four letters in either case
Spellings(code) ==
    {[i \in DOMAIN code |-> IF i \in S THEN LowerChar(code[i]) ELSE UpperChar(code[i])] :
        S \in SUBSET (1..4)}

\* routing codes of other lengths: none, two, ten and twelve characters
OtherLengths ==
    {<<>>, <<"A", "B">>, SubSeq(Ifsc1, 1, 10), Append(Ifsc1, "1")}

LookupCodes == Spellings(Ifsc1) \cup {Ifsc2, lower(Ifsc2)} \cup OtherLengths

LookupBankIds == 0..3

\* the codes are stored as the caller gives them
LookupBranchInputs ==
    {[ifsc |-> lower(Ifsc1), bank_id |-> 1] @@ NoText,
     [ifsc |-> Ifsc2, bank_id |-> 2] @@ NoText}

LookupStores ==
    {<<>>, <<[ifsc |-> Ifsc1, bank_id |-> 1] @@ NoText>>,
     <<[ifsc |-> Ifsc3, bank_id |-> 3] @@ NoText>>}

InitLookup ==
    /\ banks = QueryBanks
    /\ branches \in LookupStores
    /\ fk_enforced = FALSE
    /\ csv_file = <<>>
    /\ InitLoader
    /\ InitIdle

LookupCreateBranch == \E branch \in LookupBranchInputs : create_branch(branch)

LookupGetBank == \E bank_id \in LookupBankIds : api_get_bank(bank_id)

LookupGetBranch == \E ifsc \in LookupCodes : api_get_branch(ifsc)

LookupBankBranches ==
    \E bank_id \in LookupBankIds, page_size \in {0, 1} :
        api_get_bank_branches(bank_id, 1, page_size, None, None)

LookupQueryBank == \E bank_id \in LookupBankIds : Query_bank(bank_id)

LookupQueryBranch == \E ifsc \in LookupCodes : Query_branch(ifsc)

NextLookup ==
    \/ LookupCreateBranch
    \/ LookupGetBank
    \/ LookupGetBranch
    \/ LookupBankBranches
    \/ LookupQueryBank
    \/ LookupQueryBranch

SpecLookup == InitLookup /\ [][NextLookup]_vars

-----------------------------------------------------------------------------
(* Specification SpecBanks: searches of a stored banks table *)

MaxBanks == 3

\* names in the two cases of a letter outside ASCII and of an ASCII letter
BankNames == {<<"E", "b">>, <<"e", "b">>, <<"A", "b">>, <<"a">>}

\* banks tables of up to MaxBanks rows, in id order
BankStores ==
    UNION {{[i \in 1..n |-> [id |-> i, name |-> names[i]]] :
               names \in [1..n -> BankNames]} : n \in 0..MaxBanks}

SearchTerms == {None, <<>>, <<"E">>, <<"e">>, <<"A">>, <<"a">>, <<"e", "B">>,
                <<"E", "b">>, <<"a", "B">>}

InitBanks ==
    /\ banks \in BankStores
    /\ branches = <<>>
    /\ fk_enforced = FALSE
    /\ csv_file = <<>>
    /\ InitLoader
    /\ InitIdle

BanksList ==
    /\ request = NoRequest
    /\ \E page \in 1..MaxPage, page_size \in {1, BankPageSizeMax},
          search \in SearchTerms :
           list_banks(page, page_size, search)

BanksGet ==
    /\ request = NoRequest
    /\ \E skip \in 0..1, limit \in {1, 100}, search \in SearchTerms :
           crud_get_banks(skip, limit, search)

BanksCount ==
    /\ request = NoRequest
    /\ \E search \in SearchTerms : crud_get_banks_count(search)

NextBanks ==
    \/ BanksList
    \/ BanksGet
    \/ BanksCount

SpecBanks == InitBanks /\ [][NextBanks]_vars

-----------------------------------------------------------------------------
(* Specification SpecStartup: starts and restarts of the application; the  *)
(* loader runs only when the startup handler launches it                   *)

InitStartup ==
    /\ \E s \in StoresBefore : banks = s.banks /\ branches = s.branches
    /\ fk_enforced \in BOOLEAN
    /\ csv_file \in Files
    /\ InitLoader
    /\ InitIdle

NextStartup ==
    \/ startup_event
    \/ LoadBanks
    \/ QueryExisting
    \/ RowStep
    \/ FinishRun

SpecStartup == InitStartup /\ [][NextStartup]_vars

-----------------------------------------------------------------------------
(* Specification SpecExport: exports of an unchanged store *)

MaxExportRows == 5

Digit(i) == <<"1", "2", "3", "4", "5", "6", "7", "8", "9">>[i]

ExportIfsc(i) == <<"A", "B", "A", "B", "0", "0", "0", "0", "0", "0", Digit(i)>>

\* every third row belongs to a bank that is not stored
ExportRow(i) ==
    [ifsc |-> ExportIfsc(i), bank_id |-> 1 + (i % 3),
     branch |-> IF i % 2 = 0 THEN <<"a">> ELSE None,
     address |-> <<"B">>, city |-> <<>>, district |-> None,
     state |-> IF i % 3 = 0 THEN <<"b">> ELSE <<"A">>]

ExportTable == [i \in 1..MaxExportRows |-> ExportRow(i)]

ExportStores ==
    {SelectSeq(ExportTable, LAMBDA r : r.ifsc \in {ExportIfsc(i) : i \in S}) :
        S \in SUBSET (1..MaxExportRows)}

ExportFilters ==
    {NoFilters,
     [NoFilters EXCEPT !.bank_id = 2],
     [NoFilters EXCEPT !.bank_name = <<"A">>],
     [NoFilters EXCEPT !.state = <<"a">>, !.search = <<"b">>]}

InitExport ==
    /\ banks = QueryBanks
    /\ branches \in ExportStores
    /\ fk_enforced = FALSE
    /\ csv_file = <<>>
    /\ InitLoader
    /\ InitIdle

ExportRequest == \E f \in ExportFilters : ExportStart(f)

NextExport ==
    \/ ExportRequest
    \/ ExportBatch

\* the loop runs on while the response is being consumed
SpecExport == InitExport /\ [][NextExport]_vars /\ WF_vars(ExportBatch)

-----
(* Properties of the loader *)

IsPrefix(s, t) == Len(s) <= Len(t) /\ SubSeq(t, 1, Len(s)) = s

NoDupIds(tbl) == \A i, j \in DOMAIN tbl : tbl[i].id = tbl[j].id => i = j
NoDupIfscs(tbl) == \A i, j \in DOMAIN tbl : tbl[i].ifsc = tbl[j].ifsc => i = j

\* the rows of the source file and their routing codes
SourceRows == read_csv(csv_file)
SourceCodes == {SourceRows[i].ifsc : i \in DOMAIN SourceRows}

\* the first row of the source that carries routing code c
FirstRow(c) ==
    SourceRows[CHOOSE i \in DOMAIN SourceRows :
                   /\ SourceRows[i].ifsc = c
                   /\ \A j \in 1..(i - 1) : SourceRows[j].ifsc # c]

RunOver == run_no >= 1 /\ pc \in {"done", "exit1"}

\* C2: once a run over the source has reached its report without a failed
\* batch, every step of a later run over the same source leaves both tables
\* as they are, inserts no institution and no branch, loses no batch and
\* does not end the run early.
C2_RerunInsertsNothing ==
    [][clean_runs >= 1 =>
          /\ banks' = banks
          /\ branches' = branches
          /\ run_added' = NoRunAdded
          /\ total_inserted' = 0
          /\ failed_rows' = <<>>
          /\ pc' # "exit1"]_vars

\* C2 witness: a second run has reported after a first run that loaded at
\* least two branches
C2_Witness ==
    /\ pc = "done"
    /\ run_no = 2
    /\ clean_runs = 2
    /\ Len(df) >= 2
    /\ skipped = Len(df)
    /\ total_inserted = 0

\* no bulk insert of the run failed, the institutions' included
NoInsertFailed == failed_rows = <<>> /\ last_step \notin {"abort_banks", "abort_storage"}

\* C3 (as claimed): a run creates no duplicate key, keeps every stored row
\* in place and unchanged, and, when no insert failed, ends with every
\* routing code of the source stored.
C3_SafeRerun ==
    /\ [](NoDupIds(banks) /\ NoDupIfscs(branches))
    /\ [][IsPrefix(banks, banks') /\ IsPrefix(branches, branches')]_vars
    /\ []((RunOver /\ NoInsertFailed) => SourceCodes \subseteq Ifscs(branches))

\* C4: the step in which a batch insert fails leaves both tables exactly as
\* they were (none of the batch's rows is stored, every earlier row stays),
\* empties the staged batch, counts nothing as inserted and leaves the run
\* in its row loop, or at its report when the batch was the last one; a run
\* that lost a batch never ends early.
C4_FailedBatchRolledBack ==
    /\ [][Len(failed_rows') > Len(failed_rows) =>
             /\ branches' = branches
             /\ banks' = banks
             /\ total_inserted' = total_inserted
             /\ run_added' = run_added
             /\ (pc = "rows" =>
                    /\ branches_to_insert' = <<>>
                    /\ idx' = idx + 1
                    /\ pc' = IF idx < Len(df) THEN "rows" ELSE "remaining")
             /\ (pc = "remaining" => pc' = "done")]_vars
    /\ [](failed_rows # <<>> => pc # "exit1")

\* C4 witness: a batch was inserted after an earlier batch of the run failed
C4_Witness ==
    /\ failed_rows # <<>>
    /\ last_step \in {"batch_inserted", "rest_inserted"}
    /\ run_added.branches # <<>>

\* C5 (as claimed): no malformed row and no refused insert ends a run early;
\* every run reaches its report.  (A storage error of the institutions'
\* insert is left aside: only rows of the source end the run here.)
C5_RunNeverAborts == pc = "exit1" => last_step = "abort_storage"

\* C6: after the file is read, the frame holds exactly one row per routing
\* code of the source, the first one in file order, and the count of dropped
\* rows is the number of source rows minus the number of distinct routing
\* codes; after an insert, every branch the run stored carries the values of
\* the first source row with its routing code.
C6_FirstOccurrenceWins ==
    /\ last_step = "load_csv" =>
           /\ Len(df) = Cardinality(SourceCodes)
           /\ \A i \in DOMAIN df : df[i] = FirstRow(df[i].ifsc)
           /\ duplicates_removed = Len(SourceRows) - Cardinality(SourceCodes)
    /\ last_step \in {"batch_inserted", "rest_inserted"} =>
           \A i \in DOMAIN run_added.branches :
               run_added.branches[i] = branch_data(FirstRow(run_added.branches[i].ifsc))

\* C6 witness: the source repeats a routing code with other values, and the
\* run stored a branch under that code
C6_Witness ==
    /\ duplicates_removed >= 1
    /\ \E i, j \in DOMAIN SourceRows :
           /\ i < j
           /\ SourceRows[i].ifsc = SourceRows[j].ifsc
           /\ SourceRows[i] # SourceRows[j]
           /\ \E k \in DOMAIN run_added.branches :
                  run_added.branches[k].ifsc = SourceRows[i].ifsc

-----------------------------------------------------------------------------
(* Specification SpecExportInsert: exports on a backend that lists the     *)
(* branches in routing-code order, while branches are being created        *)

\* stores in any storage order
InsertStores ==
    {t \in SeqsUpTo({ExportRow(i) : i \in 1..MaxExportRows}, MaxStore) :
        \A i, j \in DOMAIN t : t[i].ifsc = t[j].ifsc => i = j}

InitExportInsert ==
    /\ banks = QueryBanks
    /\ branches \in InsertStores
    /\ fk_enforced = FALSE
    /\ csv_file = <<>>
    /\ InitLoader
    /\ InitIdle

InsertExportRequest ==
    \E f \in {NoFilters, [NoFilters EXCEPT !.bank_id = 2]} : ExportStart(f)

InsertBranch == \E i \in 1..MaxExportRows : create_branch(ExportRow(i))

NextExportInsert ==
    \/ InsertExportRequest
    \/ ExportBatchByIfsc
    \/ InsertBranch

SpecExportInsert == InitExportInsert /\ [][NextExportInsert]_vars

-----------------------------------------------------------------------------
(* Properties of the store under loader runs and create operations *)

\* C9 (as claimed): every stored branch references a stored institution
C9_ReferentialIntegrity ==
    \A i \in DOMAIN branches : branches[i].bank_id \in BankIds(banks)

IsBankArg(x) == x \in BankInputs

\* C10: no two stored institutions share an id and no two stored branches a
\* routing code; a create operation whose id or routing code is stored
\* raises and leaves both tables as they were, and any other create
\* operation stores at most its own row.
C10_UniqueKeys ==
    /\ [](NoDupIds(banks) /\ NoDupIfscs(branches))
    /\ [][creates' # creates =>
             IF IsBankArg(create_arg')
             THEN /\ branches' = branches
                  /\ IF create_arg'.id \in BankIds(banks)
                     THEN banks' = banks /\ last_step' = "create_bank_error"
                     ELSE banks' \in {banks, Append(banks, create_arg')}
             ELSE /\ banks' = banks
                  /\ IF create_arg'.ifsc \in Ifscs(branches)
                     THEN branches' = branches /\ last_step' = "create_branch_error"
                     ELSE branches' \in {branches, Append(branches, create_arg')}]_vars

\* C10 witness: a create operation was refused for a stored key while the
\* loader had filled both tables
C10_Witness ==
    /\ last_step \in {"create_bank_error", "create_branch_error"}
    /\ clean_runs >= 1
    /\ Len(banks) >= 2
    /\ Len(branches) >= 2
    /\ IF IsBankArg(create_arg) THEN create_arg.id \in BankIds(banks)
       ELSE create_arg.ifsc \in Ifscs(branches)

-----------------------------------------------------------------------------
(* Properties of the list and count queries *)

\* C1: for every combination of the six filters and every store, the count
\* of branches equals the number of rows the listing returns with skip 0 and
\* no limit
C1_CountEqualsListLength ==
    /\ (request.op = "list_branches" /\ response.status = 200
                                      /\ request.page_size = 0)
           => Len(response.body)
                  = get_branches_count(banks, branches, request.filters)
    /\ request.op = "branches_count"
           => response.count
                  = Len(get_branches(banks, branches, 0, NoInt, request.filters))

C1_Witness ==
    /\ request.op = "branches_count"
    /\ Truthy(request.filters.state)
    /\ Truthy(request.filters.search)
    /\ response.count >= 1
    /\ response.count < Len(branches)

Max(a, b) == IF a >= b THEN a ELSE b

\* C12 (as claimed): for every skip >= 0 the listing returns at most limit
\* rows when the limit is a positive number, and with no limit it returns all
\* matching rows from position skip on, max(0, count - skip) of them
C12_AtMostLimitRows ==
    /\ request.op = "get_branches" =>
          /\ ~response.raised
          /\ IF request.limit # NoInt
             THEN Len(response.body) <= request.limit
             ELSE Len(response.body)
                      = Max(0, get_branches_count(banks, branches, request.filters)
                               - request.skip)
    /\ (request.op = "list_branches" /\ response.status = 200
                                      /\ request.page_size > 0)
           => Len(response.body) <= request.page_size

OrAbsent(t) == IF t = <<>> THEN None ELSE t

\* the filters with every empty text taken out
WithoutEmpty(f) ==
    [bank_id |-> f.bank_id, bank_name |-> OrAbsent(f.bank_name),
     city |-> OrAbsent(f.city), district |-> OrAbsent(f.district),
     state |-> OrAbsent(f.state), search |-> OrAbsent(f.search)]

\* C13: an absent or empty filter applies no predicate: list and count give
\* what they give with that filter left out, and with no filter at all they
\* cover the whole branch table
C13_EmptyFilterIsNoFilter ==
    /\ (request.op = "list_branches" /\ response.status = 200
                                      /\ request.page_size = 0) =>
          /\ response.body = get_branches(banks, branches, 0, NoInt,
                                          WithoutEmpty(request.filters))
          /\ WithoutEmpty(request.filters) = NoFilters
                => [i \in DOMAIN response.body |-> response.body[i].row] = branches
    /\ request.op = "branches_count" =>
          /\ response.count = get_branches_count(banks, branches,
                                                 WithoutEmpty(request.filters))
          /\ WithoutEmpty(request.filters) = NoFilters
                => response.count = Len(branches)

C13_Witness ==
    /\ request.op = "list_branches"
    /\ response.status = 200
    /\ request.page_size = 0
    /\ request.filters.city = <<>>
    /\ Truthy(request.filters.state)
    /\ Len(response.body) >= 1
    /\ Len(response.body) < Len(branches)
    /\ \E i \in DOMAIN branches : Truthy(branches[i].city)

\* a filter that is supplied: neither absent nor empty
Supplied(t) == t # None /\ t # <<>>

\* case-insensitive equality of a stored text and a filter value
SameText(column, value) == column # None /\ lower(column) = lower(value)

\* the value occurs in the stored text, letter case aside
Contains(column, value) ==
    /\ column # None
    /\ \E i \in 1..(Len(column) - Len(value) + 1) :
           SubSeq(lower(column), i, i + Len(value) - 1) = lower(value)

\* the branch satisfies every supplied filter
Matches(r, f) ==
    /\ f.bank_id # NoInt => r.bank_id = f.bank_id
    /\ Supplied(f.bank_name) =>
           \E i \in DOMAIN banks : /\ banks[i].id = r.bank_id
                                   /\ SameText(banks[i].name, f.bank_name)
    /\ Supplied(f.city) => SameText(r.city, f.city)
    /\ Supplied(f.district) => SameText(r.district, f.district)
    /\ Supplied(f.state) => SameText(r.state, f.state)
    /\ Supplied(f.search) => \/ Contains(r.branch, f.search)
                             \/ Contains(r.address, f.search)
                             \/ Contains(r.ifsc, f.search)

\* C14 (as claimed): the listing selects a branch exactly when it satisfies
\* all supplied filters: bank name, city, district and state by
\* case-insensitive equality, the search term by case-insensitive occurrence
\* in the branch name, the address or the routing code
C14_SelectedIffMatches ==
    (request.op = "list_branches" /\ response.status = 200
                                   /\ request.page_size = 0)
        => [i \in DOMAIN response.body |-> response.body[i].row]
               = SelectSeq(branches, LAMBDA r : Matches(r, request.filters))

\* C15 (as claimed): when a bank id is given to the branch listing or to the
\* branches-of-a-bank endpoint, every returned branch has that bank id,
\* whatever the id
C15_BankIdFilterHolds ==
    /\ (request.op = "list_branches" /\ response.status = 200
                                      /\ request.filters.bank_id # NoInt)
           => \A i \in DOMAIN response.body :
                  response.body[i].row.bank_id = request.filters.bank_id
    /\ (request.op = "api_get_bank_branches" /\ response.status = 200)
           => \A i \in DOMAIN response.body :
                  response.body[i].bank_id = request.bank_id

\* the parameters of a list request are those the boundary accepts
ValidPaging ==
    request.page >= 1 /\ request.page_size >= 0 /\ request.page_size <= PageSizeMax

\* no branch matches the request's filters, or its page starts after the
\* last matching row
NothingToList ==
    LET count == get_branches_count(banks, branches, request.filters)
    IN  \/ count = 0
        \/ request.page_size > 0 /\ (request.page - 1) * request.page_size >= count

\* C19 (as claimed): a list request whose filters match no record, or whose
\* page lies beyond the last matching row, is answered with success and an
\* empty sequence, never with an error
C19_EmptyResultIsSuccess ==
    /\ (request.op = "list_branches" /\ ValidPaging /\ NothingToList)
           => response.status = 200 /\ response.body = <<>>
    /\ (request.op = "api_get_bank_branches" /\ ValidPaging /\ NothingToList
            /\ request.bank_id \in BankIds(banks))
           => response.status = 200 /\ response.body = <<>>
    /\ request.op = "Query_branches"
           => response.status = 200

\* C20 (as claimed): on every request path the limit given to the listing
\* function is either none or a positive number not above 1000
C20_LimitWithinCeiling ==
    /\ (request.op \in {"list_branches", "api_get_bank_branches", "Query_branches"}
            /\ response.status \in {200, 500})
           => \/ response.limit = NoInt
              \/ response.limit >= 1 /\ response.limit <= PageSizeMax
    /\ \A i \in DOMAIN queries :
           queries[i].limit >= 1 /\ queries[i].limit <= PageSizeMax

\* C21: a list request with page < 1 or with page_size below 0 or above 1000
\* is rejected with a validation error and the engine is not called
C21_BadPagingRejected ==
    (request.op \in {"list_branches", "api_get_bank_branches", "list_banks"}
         /\ (request.page < 1 \/ request.page_size < 0
                              \/ request.page_size > PageSizeMax))
        => response.status = 422 /\ ~response.engine_called

C21_Witness ==
    /\ request.op = "list_branches"
    /\ request.page >= 1
    /\ request.page_size > PageSizeMax
    /\ response.status = 422
    /\ Len(branches) >= 1

\* C22 (as claimed): a branch list request with page_size 0 reaches the
\* engine as skip 0 with no limit and returns every branch matching the
\* filters, whatever the page number
C22_PageSizeZeroListsAll ==
    /\ (request.op = "list_branches" /\ request.page >= 1
                                      /\ request.page_size = 0) =>
          /\ response.skip = 0 /\ response.limit = NoInt
          /\ response.status = 200
          /\ response.body = get_branches(banks, branches, 0, NoInt,
                                          request.filters)
    /\ (request.op = "api_get_bank_branches" /\ request.page >= 1
            /\ request.page_size = 0 /\ request.bank_id \in BankIds(banks)) =>
          /\ response.skip = 0 /\ response.limit = NoInt
          /\ response.status = 200
          /\ Len(response.body)
                 = Len(get_branches(banks, branches, 0, NoInt, request.filters))

\* the joined row j carries the stored bank of its branch
Carries(j, banktbl) ==
    \A i \in DOMAIN banktbl : banktbl[i].id = j.row.bank_id => j.bank = banktbl[i]

\* the export line names the stored bank of its branch, and has a blank
\* name only when no bank with the branch's bank_id is stored
LineCarries(line, banktbl) ==
    /\ \A i \in DOMAIN banktbl : banktbl[i].id = line[2] => line[3] = banktbl[i].name
    /\ line[3] = <<>> => line[2] \notin BankIds(banktbl)

\* C23: every branch in the answer to a list or a lookup request, and every
\* line the export emits, carries the bank whose id is the branch's bank_id
\* whenever that bank is stored; the export writes a blank bank name only
\* when no such bank is stored
C23_CarriesInstitution ==
    [][/\ (response' # response /\ response'.status = 200
               /\ request'.op = "list_branches") =>
              \A i \in DOMAIN response'.body : Carries(response'.body[i], banks')
       /\ (response' # response /\ response'.status = 200
               /\ request'.op = "api_get_branch") =>
              Carries(response'.body, banks')
       /\ \A k \in (Len(output) + 1)..Len(output') :
              k > 1 => LineCarries(output'[k], banks')]_vars

\* an export that has written one line with the name of bank 2 and one line
\* with a blank name, for a branch of bank 3, which is not stored
C23_Witness ==
    /\ ex_pc = "done"
    /\ \E k \in 2..Len(output) : output[k][2] = 2 /\ output[k][3] = <<"b">>
    /\ \E k \in 2..Len(output) : output[k][2] = 3 /\ output[k][3] = <<>>
    /\ 3 \notin BankIds(banks)

\* the upper/lower-case spellings of a search term among the terms tried
SpellingsOf(t) ==
    IF t = None THEN {None} ELSE {u \in SearchTerms \ {None} : lower(u) = lower(t)}

RowSet(rows) == {rows[i] : i \in DOMAIN rows}

\* C24 (as claimed): the bank search ignores case: every upper/lower-case
\* spelling of a search term lists the same banks, and the count for the
\* term is the number of banks listed
C24_SearchIgnoresCase ==
    /\ (request.op = "get_banks" /\ ~response.raised) =>
           \A u \in SpellingsOf(request.search) :
               response.body = get_banks(banks, request.skip, request.limit, u)
    /\ (request.op = "list_banks" /\ response.status = 200) =>
           \A u \in SpellingsOf(request.search) :
               response.body = get_banks(banks, response.skip, response.limit, u)
    /\ request.op = "get_banks_count" =>
           \A u \in SpellingsOf(request.search) :
               response.count
                   = Cardinality(RowSet(get_banks(banks, 0, NoInt, u)))

\* the rows of pages p..n of size s, in page order, as the engine returns
\* them for skip = (page - 1) * s and limit = s
RECURSIVE PagesFrom(_, _, _, _)
PagesFrom(p, n, s, f) ==
    IF p > n THEN <<>>
    ELSE get_branches(banks, branches, (p - 1) * s, s, f)
             \o PagesFrom(p + 1, n, s, f)

\* the number of pages of size s that hold n rows, and one more
PageCount(n, s) == (n \div s) + 1

\* C25: for fixed filters, an unchanged store and a page size s >= 1, the
\* pages 1, 2, 3, ... of a listing are pairwise disjoint and, put together
\* in page order, they are the unbounded listing for the same filters; the
\* page a request asks for is its slice of that listing
C25_PagesPartition ==
    (request.op = "list_branches" /\ response.engine_called
         /\ request.page_size >= 1) =>
        LET s == request.page_size
            f == request.filters
            all == get_branches(banks, branches, 0, NoInt, f)
            n == PageCount(Len(all), s)
            page(p) == get_branches(banks, branches, (p - 1) * s, s, f)
            mine == get_branches(banks, branches, response.skip,
                                 response.limit, f)
            from == (request.page - 1) * s + 1
            to == IF request.page * s < Len(all) THEN request.page * s
                  ELSE Len(all)
        IN  /\ PagesFrom(1, n, s, f) = all
            /\ \A p, q \in 1..n :
                   p # q => RowSet(page(p)) \cap RowSet(page(q)) = {}
            /\ ~bind_overflows(response.skip, response.limit) =>
                   mine = SubSeq(all, from, to)
            /\ response.status = 200 => response.body = mine

\* page 2 of size 1 of a listing of three branches, filtered by bank id
C25_Witness ==
    /\ request.op = "list_branches"
    /\ request.page = 2
    /\ request.page_size = 1
    /\ request.filters.bank_id = 1
    /\ response.status = 200
    /\ Len(response.body) = 1
    /\ response.body[1].row.ifsc = Ifsc4
    /\ Len(branches) = 3

-----------------------------------------------------------------------------
(* Properties of the loader's bank and branch inserts *)

\* C26 (as claimed): the list of banks a run hands to the bulk insert holds
\* each id at most once, also when the source lists one bank_id under two
\* bank names, and such a source does not make the insert fail
C26_BanksInsertedOnce ==
    /\ pc = "banks" => NoDupIds(new_banks(banks_df(df), BankIds(banks)))
    /\ last_step # "abort_banks"

\* C27: in a loader run the banks are inserted and committed before the
\* first batch of branches, so in every committed state each branch the run
\* has inserted references a stored bank; when the insert of the banks
\* fails, the run inserts no branch
C27_BanksBeforeBranches ==
    /\ \A i \in DOMAIN run_added.branches :
           run_added.branches[i].bank_id \in BankIds(banks)
    /\ pc = "banks" => run_added.branches = <<>>
    /\ last_step \in {"abort_banks", "abort_storage"} =>
           pc = "exit1" /\ run_added.branches = <<>>

\* a finished run that inserted a bank and then a branch of it into a store
\* that does not check foreign keys
C27_Witness ==
    /\ pc = "done"
    /\ ~fk_enforced
    /\ run_added.banks # <<>>
    /\ \E i \in DOMAIN run_added.branches :
           run_added.branches[i].bank_id = run_added.banks[1].id

\* C28 (as claimed): at the end of every loader run the branches inserted,
\* the branches skipped as already stored and the rows of the batches whose
\* insert failed add up to the number of deduplicated source rows, and the
\* inserted count the run reports is the number of branch rows it added
\* (a run ended by a failure of the storage itself is left aside)
C28_CountsAddUp ==
    (RunOver /\ last_step # "abort_storage") =>
        /\ total_inserted + skipped + Len(failed_rows) = Len(df)
        /\ total_inserted = Len(run_added.branches)

-----------------------------------------------------------------------------
(* Properties of an export during inserts *)

\* the line of every branch that was stored when the export began and
\* matches its filters
LinesBegan ==
    LET rows == get_branches(banks, ex_began, 0, NoInt, ex_filters)
    IN  {csv_row(rows[i]) : i \in DOMAIN rows}

\* C30: when branches are inserted, and none deleted, while an export is in
\* progress and the rows are listed in routing-code order, every matching
\* branch that was stored when the export began is emitted at least once:
\* an insert can make a row appear twice, it cannot make a row that was
\* there from the start go missing
C30_NoRowMissed ==
    ex_pc = "done" =>
        \A line \in LinesBegan : \E k \in 2..Len(output) : output[k] = line

\* a finished export during which a branch was created: a line was emitted
\* twice, and every line of the branches stored at the start is there
C30_Witness ==
    /\ ex_pc = "done"
    /\ Len(branches) > Len(ex_began)
    /\ Len(ex_began) >= 3
    /\ \E k, m \in 2..Len(output) : k # m /\ output[k] = output[m]
    /\ \A line \in LinesBegan : \E k \in 2..Len(output) : output[k] = line

-----------------------------------------------------------------------------
(* Properties of the startup handler *)

\* the source has a routing code that is not stored
BranchesLacking == \E i \in DOMAIN df : df[i].ifsc \notin Ifscs(branches)

\* a step taken while no loader run is under way launches a run exactly
\* when no bank is stored, and changes no table when a bank is stored
StartsRight ==
    pc \in {"start", "done", "exit1"} =>
        /\ (run_no' = run_no + 1) <=> (banks = <<>>)
        /\ (banks # <<>>) => (banks' = banks /\ branches' = branches)

\* C29: when the application starts, the loader is launched if and only if
\* the banks table is empty; a store that holds banks is left as it is by
\* every restart, also when branches of the source are lacking
C29_LoadsOnlyWhenEmpty ==
    [][StartsRight]_vars

\* a restart after a run whose branch batch failed: the banks are stored,
\* a branch of the source is lacking, and the restart loads nothing
C29_Witness ==
    /\ last_step = "startup_no_load"
    /\ run_no = 1
    /\ failed_rows # <<>>
    /\ banks # <<>>
    /\ BranchesLacking

-----------------------------------------------------------------------------
(* Properties of the export *)

\* the branches the filters of the running export match
ExportMatches == get_branches(banks, branches, 0, NoInt, ex_filters)

\* C7: on an unchanged store the export emits the header first and then
\* exactly one data line for each matching branch, none omitted and none
\* twice, so the data lines number count(filters)
C7_OneLinePerMatch ==
    /\ ex_pc # "idle" => output # <<>> /\ Head(output) = header
    /\ ex_pc = "done" =>
          /\ Len(output) - 1 = get_branches_count(banks, branches, ex_filters)
          /\ \A i \in DOMAIN ExportMatches :
                 Cardinality({k \in 2..Len(output) :
                                 output[k][1] = ExportMatches[i].row.ifsc}) = 1
          /\ \A k \in 2..Len(output) :
                 \E i \in DOMAIN ExportMatches : output[k] = csv_row(ExportMatches[i])

C7_Witness ==
    /\ ex_pc = "done"
    /\ Len(queries) >= 2
    /\ Len(output) - 1 > ExportBatchSize
    /\ Len(output) - 1 < Len(branches)

\* the shape of the queries the export loop has issued so far
ExportQueriesInStep ==
    \A i \in DOMAIN queries :
        /\ queries[i].skip = (i - 1) * ExportBatchSize
        /\ queries[i].limit = ExportBatchSize
        /\ i < Len(queries) => queries[i].n = ExportBatchSize
        /\ queries[i].n < ExportBatchSize => i = Len(queries) /\ ex_pc = "done"

\* C8: the export loop queries with skip 0, B, 2B, ... and limit B (B the
\* batch size), stops after the first batch that is empty or shorter than B
\* and issues no query after it, so on a finite unchanged store it terminates
C8_LoopStopsAfterShortBatch ==
    /\ [](ExportQueriesInStep)
    /\ [](ex_pc = "done" => queries # <<>>
                            /\ queries[Len(queries)].n < ExportBatchSize)
    /\ (ex_pc = "loop" ~> ex_pc = "done")

C8_Witness ==
    /\ ex_pc = "done"
    /\ Len(queries) >= 3
    /\ queries[Len(queries)].n = 0

-----------------------------------------------------------------------------
(* Properties of the core as a whole *)

\* a step of a list, count, lookup or export operation
ReadStep == request' # request \/ xvars' # xvars

\* C11: no operation changes or removes a stored record: list, count, lookup
\* and export steps leave both tables unchanged, and loader runs and create
\* operations only add rows, so every committed row stays with its values
C11_RecordsOnlyAdded ==
    [][/\ IsPrefix(banks, banks')
       /\ IsPrefix(branches, branches')
       /\ ReadStep => banks' = banks /\ branches' = branches]_vars

\* C11 witness: a lookup answered from a store that a loader run, a failed
\* batch and a create operation have all written to
C11_Witness ==
    /\ request.op = "api_get_branch"
    /\ response.status = 200
    /\ run_no >= 1
    /\ failed_rows # <<>>
    /\ creates >= 1
    /\ Len(branches) >= 2

-----------------------------------------------------------------------------
(* Properties of the lookups *)

\* the stored branches whose routing code is the given one, letter case aside
StoredAs(ifsc) ==
    {i \in DOMAIN branches : lower(branches[i].ifsc) = lower(ifsc)}

\* C16 (as claimed): the lookup by routing code is case-insensitive: for
\* every stored branch, every upper- and lower-case spelling of its routing
\* code returns that branch
C16_LookupIgnoresCase ==
    /\ request.op = "api_get_branch" =>
           \A i \in StoredAs(request.ifsc) :
               response.status = 200 /\ response.body.row = branches[i]
    /\ request.op = "Query_branch" =>
           \A i \in StoredAs(request.ifsc) :
               response.data # NoRow /\ response.data.row = branches[i]

\* C17 (as claimed): on every path to the lookup by routing code, an input
\* that is not 11 characters long is rejected with a validation error before
\* the lookup function is called
C17_LengthCheckedFirst ==
    (request.op \in {"api_get_branch", "Query_branch"} /\ Len(request.ifsc) # 11)
        => response.status = 400 /\ ~response.engine_called

\* C18: a lookup by a bank id or by an 11-character routing code that is not
\* stored is answered NotFound (404; null from a resolver), the branches of
\* an unknown bank included, and no lookup changes the store
C18_MissingIsNotFound ==
    /\ [](/\ (request.op = "api_get_bank" /\ request.bank_id \notin BankIds(banks))
                => response.status = 404
          /\ (request.op = "api_get_bank_branches"
                  /\ request.bank_id \notin BankIds(banks))
                => response.status = 404
          /\ (request.op = "api_get_branch" /\ Len(request.ifsc) = 11
                  /\ StoredAs(request.ifsc) = {})
                => response.status = 404
          /\ (request.op = "Query_bank" /\ request.bank_id \notin BankIds(banks))
                => response.data = NoRow
          /\ (request.op = "Query_branch" /\ StoredAs(request.ifsc) = {})
                => response.data = NoRow)
    /\ [][request' # request \/ response' # response
              => banks' = banks /\ branches' = branches]_vars

C18_Witness ==
    /\ request.op = "api_get_branch"
    /\ response.status = 404
    /\ Len(request.ifsc) = 11
    /\ StoredAs(request.ifsc) = {}
    /\ Len(branches) >= 2

====
